---------------------------- MODULE Spec2Model ----------------------------
(***************************************************************************)
(* A model of the google-drive-api browser client:                         *)
(*   - the Token Store   (AuthProvider.tsx: readStoredToken, storeToken,   *)
(*                        clearStoredToken)                                *)
(*   - the Auth Session  (services/auth.ts: initGIS, signIn, signOut ...)  *)
(*   - the Session Controller (AuthProvider.tsx: initializeGoogleLibraries,*)
(*                        signIn, signOut)                                 *)
(*   - the File Manager View (MainPage.tsx)                                *)
(*   - the Storage Client (services/googleApi.ts)                          *)
(* Every action is one JavaScript task: the code that runs between two     *)
(* awaits / callbacks on the browser's single thread.                      *)
(***************************************************************************)
EXTENDS Integers, Sequences, FiniteSets, Bags, TLC

VARIABLES
    \* ---- browser / vendor environment
    now,            \* Date.now()
    localStorage,   \* the raw text stored under TOKEN_STORAGE_KEY
    gapiLib,        \* is the global gapi defined
    googleLib,      \* the global google: "undefined" | "noOauth2" | "full"
    gapiToken,      \* the token installed with gapi.client.setToken
    tokenRequests,  \* token requests in flight at the vendor (a bag)
    \* ---- services/auth.ts module state
    tokenClient,    \* has initTokenClient returned a client
    accessToken,    \* let accessToken: string | null
    \* ---- AuthProvider state
    pc,             \* where initializeGoogleLibraries stands
    attempts,       \* waitForGoogleLibraries: let attempts
    storedToken,    \* const storedToken = readStoredToken()
    isSignedIn,
    isInitialized,
    error,
    \* ---- MainPage state
    files,
    loading,
    viewError,      \* MainPage's own error state
    selectedFile,
    effectSeen,     \* the isSignedIn the effect of lines 13-19 last ran with
    calls,          \* Storage Client calls of the view in flight (a bag)
    \* ---- history of the session (observations the claims are stated over)
    signOuts,       \* how many times signOut has run
    lastSignOut,    \* the last signOut: the token in use, the token revoked
    tsOp,           \* the Token Store operation applied last (SpecToken)
    \* ---- services/googleApi.ts: build configuration, one call, the remote
    SHARED_FOLDER_ID,
    ALLOWED_EDIT_EMAILS,
    apiPc,          \* where the Storage Client call stands
    apiArgs,        \* the call and its arguments
    apiLocal,       \* its locals: the request body, the id, the details
    issued,         \* the requests the call has issued to the vendor API
    remoteFiles,    \* the ids of the files on the remote side
    browser,        \* Blobs and object URLs made, the name saved under
    outcome         \* what the caller received

envVars  == <<now, localStorage, gapiLib, googleLib, gapiToken, tokenRequests>>
authVars == <<tokenClient, accessToken>>
ctlVars  == <<pc, attempts, storedToken, isSignedIn, isInitialized, error>>
viewVars == <<files, loading, viewError, selectedFile, effectSeen, calls>>
histVars == <<signOuts, lastSignOut, tsOp>>
apiVars  == <<SHARED_FOLDER_ID, ALLOWED_EDIT_EMAILS, apiPc, apiArgs, apiLocal,
              issued, remoteFiles, browser, outcome>>
appVars  == <<envVars, authVars, ctlVars, viewVars, histVars>>

-----------------------------------------------------------------------------
(* Bounds of the model *)

MaxNow == 1
MaxTokenRequests == 2
MaxSignOuts == 1
MaxCalls == 2
MaxRemoteFiles == 2

(* Program constants *)

maxAttempts == 50
MsPerSecond == 1000

Null == "null"
None == <<>>
Some(x) == <<x>>

Tokens    == {"tokA", "tokB"}
ExpiresIn == {0, 1}      \* expires_in: missing or 0, or one second

\* The instants the clock is observed at: the first milliseconds, and the
\* milliseconds around the expiry of a token stored in them.
Times ==
    (0..MaxNow) \cup {e * MsPerSecond + d : e \in ExpiresIn \ {0}, d \in 0..MaxNow}

-----------------------------------------------------------------------------
(* Token Store *)

\* A text under the storage key: nothing, the empty string, a text that is
\* no JSON, the JSON text null, or a JSON object with (some of) the fields.
RawObject(hasTok, tok, hasExp, exp) ==
    [kind |-> "object", hasAccessToken |-> hasTok, accessToken |-> tok,
     hasExpiresAt |-> hasExp, expiresAt |-> exp]

RawOther(k) ==
    [kind |-> k, hasAccessToken |-> FALSE, accessToken |-> "",
     hasExpiresAt |-> FALSE, expiresAt |-> 0]

Absent == RawOther("absent")

StoredObjects ==
    {RawObject(TRUE, t, TRUE, x) : t \in Tokens \cup {""}, x \in 0..(MaxNow + 1)}
    \cup {RawObject(FALSE, "", TRUE, x) : x \in 1..(MaxNow + 1)}
    \cup {RawObject(TRUE, t, FALSE, 0) : t \in Tokens}

StoredValues ==
    {Absent, RawOther("empty"), RawOther("garbage"), RawOther("jsonNull")}
    \cup StoredObjects

\* JSON.stringify(tokenToStore)
JSONstringify(tokenToStore) ==
    RawObject(TRUE, tokenToStore.accessToken, TRUE, tokenToStore.expiresAt)

\* JSON.parse(storedValue) followed by the two property reads of line 48:
\* "throws" for a text that is no JSON and for null (a property of null).
JSONparse(storedValue) ==
    IF storedValue.kind = "object"
    THEN [throws |-> FALSE,
          accessTokenTruthy |-> storedValue.hasAccessToken /\ storedValue.accessToken # "",
          expiresAtTruthy |-> storedValue.hasExpiresAt /\ storedValue.expiresAt # 0,
          parsed |-> [accessToken |-> storedValue.accessToken,
                      expiresAt |-> storedValue.expiresAt]]
    ELSE [throws |-> TRUE, accessTokenTruthy |-> FALSE, expiresAtTruthy |-> FALSE,
          parsed |-> [accessToken |-> "", expiresAt |-> 0]]

\* A plausible slip in readStoredToken: > for >= in the expiry test.
readStoredTokenLateExpiry(storedValue, t) ==
    IF storedValue.kind \in {"absent", "empty"} THEN None
    ELSE LET p == JSONparse(storedValue) IN
         IF p.throws THEN None
         ELSE IF ~p.accessTokenTruthy \/ ~p.expiresAtTruthy THEN None
         ELSE IF t > p.parsed.expiresAt THEN None
         ELSE Some(p.parsed)

\* readStoredToken(), reading the storage text storedValue at Date.now() = t.
readStoredToken(storedValue, t) ==
    IF storedValue.kind \in {"absent", "empty"} THEN None
    ELSE LET p == JSONparse(storedValue) IN
         IF p.throws THEN None
         ELSE IF ~p.accessTokenTruthy \/ ~p.expiresAtTruthy THEN None
         ELSE IF t >= p.parsed.expiresAt THEN None
         ELSE Some(p.parsed)

\* A token response of the vendor: an error payload, or an access token
\* (possibly none) with expires_in (0: missing or zero).
TokenResponses ==
    [error : {TRUE}, access_token : Tokens \cup {Null}, expires_in : ExpiresIn]
    \cup [error : {FALSE}, access_token : Tokens \cup {Null}, expires_in : ExpiresIn]

\* A plausible slip in storeToken: expires_in taken as milliseconds.
storeTokenNoScale(tokenResponse, storedValue, t) ==
    IF tokenResponse.access_token = Null THEN storedValue
    ELSE JSONstringify([accessToken |-> tokenResponse.access_token,
                        expiresAt |-> t + tokenResponse.expires_in])

\* storeToken(tokenResponse): the storage text afterwards.
storeToken(tokenResponse, storedValue, t) ==
    IF tokenResponse.access_token = Null THEN storedValue
    ELSE LET expiresInMs == IF tokenResponse.expires_in # 0
                            THEN tokenResponse.expires_in * MsPerSecond ELSE 0
         IN JSONstringify([accessToken |-> tokenResponse.access_token,
                           expiresAt |-> t + expiresInMs])

\* clearStoredToken(): the storage text afterwards.
clearStoredToken == Absent


-----------------------------------------------------------------------------
(* Vendor identity service: token requests in flight *)

\* A token request in flight: its prompt ("silent": prompt '', "select":
\* the default prompt of signIn) and the number of sign-outs that had
\* happened when it was made.
TokenRequest(prompt) == [prompt |-> prompt, epoch |-> signOuts]

\* tokenClient.requestAccessToken({prompt}) of signIn / signInSilently: sent
\* only when the token client exists.
requestAccessToken(prompt, client) ==
    IF client
    THEN tokenRequests (+) SetToBag({TokenRequest(prompt)})
    ELSE tokenRequests

-----------------------------------------------------------------------------
(* Session Controller: initializeGoogleLibraries *)

ErrLibraries == "Google libraries failed to load."
ErrGIS       == "Google Identity Services not available"
ErrInit      == "Failed to initialize Google Services."
ErrThrown    == "message of the thrown Error"

\* A plausible slip in the catch block: the message is not set.
InitFailedSilent(message) ==
    /\ error' = Null
    /\ isInitialized' = FALSE
    /\ pc' = "failed"

\* The catch block of initializeGoogleLibraries.
InitFailed(message) ==
    /\ error' = message
    /\ isInitialized' = FALSE
    /\ pc' = "failed"

\* The vendor scripts of index.html load asynchronously (or never).
ScriptLoaded ==
    /\ \/ /\ ~gapiLib
          /\ gapiLib' = TRUE
          /\ UNCHANGED googleLib
       \/ /\ googleLib = "undefined"
          /\ googleLib' \in {"noOauth2", "full"}
          /\ UNCHANGED gapiLib
       \/ /\ googleLib = "noOauth2"
          /\ googleLib' = "full"
          /\ UNCHANGED gapiLib
    /\ UNCHANGED <<now, localStorage, gapiToken, tokenRequests>>
    /\ UNCHANGED <<authVars, ctlVars, viewVars, histVars>>
    /\ UNCHANGED apiVars

\* A plausible slip in checkLibraries: the bound is tested before the
\* libraries.
checkLibrariesBoundFirst ==
    /\ pc = "wait"
    /\ attempts' = attempts + 1
    /\ IF attempts' >= maxAttempts
       THEN InitFailed(ErrLibraries)
       ELSE IF gapiLib /\ googleLib # "undefined"
       THEN /\ pc' = "gapiLoad"
            /\ UNCHANGED <<error, isInitialized>>
       ELSE /\ pc' = "wait"
            /\ UNCHANGED <<error, isInitialized>>
    /\ UNCHANGED <<storedToken, isSignedIn>>
    /\ UNCHANGED <<envVars, authVars, viewVars, histVars>>
    /\ UNCHANGED apiVars

\* checkLibraries(): one poll of waitForGoogleLibraries.  On success the
\* awaiting function goes on to gapi.load('client', resolve).
checkLibraries ==
    /\ pc = "wait"
    /\ attempts' = attempts + 1
    /\ IF gapiLib /\ googleLib # "undefined"
       THEN /\ pc' = "gapiLoad"
            /\ UNCHANGED <<error, isInitialized>>
       ELSE IF attempts' >= maxAttempts
       THEN InitFailed(ErrLibraries)
       ELSE /\ pc' = "wait"
            /\ UNCHANGED <<error, isInitialized>>
    /\ UNCHANGED <<storedToken, isSignedIn>>
    /\ UNCHANGED <<envVars, authVars, viewVars, histVars>>
    /\ UNCHANGED apiVars

\* gapi.load('client', resolve) calls back; initGapiClient() starts
\* gapi.client.init.  (The closure of waitForGoogleLibraries, with its
\* attempts, is gone.)
GapiLoaded ==
    /\ pc = "gapiLoad"
    /\ pc' = "gapiInit"
    /\ attempts' = 0
    /\ UNCHANGED <<storedToken, isSignedIn, isInitialized, error>>
    /\ UNCHANGED <<envVars, authVars, viewVars, histVars>>
    /\ UNCHANGED apiVars

\* gapi.client.init rejects.
GapiInitFailed ==
    /\ pc = "gapiInit"
    /\ InitFailed(ErrInit)
    /\ UNCHANGED <<attempts, storedToken, isSignedIn>>
    /\ UNCHANGED <<envVars, authVars, viewVars, histVars>>
    /\ UNCHANGED apiVars

\* A plausible slip in signInSilently: the request is sent twice.
signInSilentlyTwice ==
    requestAccessToken("silent", TRUE) (+) SetToBag({TokenRequest("silent")})

\* signInSilently(), called once initGIS has set the token client.
signInSilently == requestAccessToken("silent", TRUE)

\* gapi.client.init resolves: initGIS, then the cached credential or the
\* silent sign-in, then setIsInitialized(true) (lines 114-132), in one task.
InitGIS ==
    /\ pc = "gapiInit"
    /\ IF googleLib # "full"
       THEN /\ InitFailed(ErrGIS)
            /\ UNCHANGED <<storedToken, isSignedIn, tokenClient, gapiToken,
                           tokenRequests>>
       ELSE /\ tokenClient' = TRUE
            /\ storedToken' = readStoredToken(localStorage, now)
            /\ IF storedToken' # None
               THEN /\ gapiToken' = storedToken'[1].accessToken
                    /\ isSignedIn' = TRUE
                    /\ UNCHANGED tokenRequests
               ELSE /\ tokenRequests' = signInSilently
                    /\ UNCHANGED <<gapiToken, isSignedIn>>
            /\ isInitialized' = TRUE
            /\ error' = Null
            /\ pc' = "done"
    /\ UNCHANGED <<now, localStorage, gapiLib, googleLib>>
    /\ UNCHANGED <<accessToken, attempts, signOuts, lastSignOut, tsOp>>
    /\ UNCHANGED viewVars
    /\ UNCHANGED apiVars

\* initGIS has returned and a later call of lines 123-129 throws:
\* localStorage.getItem or gapi.client.setToken (nothing was sent), or
\* requestAccessToken of signInSilently after its request went out.
InitGISThrew ==
    /\ pc = "gapiInit"
    /\ googleLib = "full"
    /\ tokenClient' = TRUE
    /\ \/ UNCHANGED tokenRequests
       \/ /\ readStoredToken(localStorage, now) = None
          /\ tokenRequests' = signInSilently
    /\ \E message \in {ErrInit, ErrThrown} : InitFailed(message)
    /\ UNCHANGED <<now, localStorage, gapiLib, googleLib, gapiToken>>
    /\ UNCHANGED <<accessToken, attempts, storedToken, isSignedIn>>
    /\ UNCHANGED <<viewVars, histVars, apiVars>>

-----------------------------------------------------------------------------
(* Auth Session callback and Session Controller actions *)

\* The children of AuthProvider (MainPage) are rendered.
Mounted == isInitialized /\ error = Null

\* A plausible slip in the callback of initTokenClient: no return after the
\* error is logged.
TokenCallbackIgnoresError(request, response) ==
    /\ tokenRequests' = tokenRequests (-) SetToBag({request})
    /\ IF response.access_token # Null
       THEN /\ accessToken' = response.access_token
            /\ gapiToken' = response.access_token
            /\ localStorage' = storeToken(response, localStorage, now)
            /\ isSignedIn' = TRUE
       ELSE UNCHANGED <<accessToken, gapiToken, localStorage, isSignedIn>>
    /\ UNCHANGED <<now, gapiLib, googleLib, tokenClient>>
    /\ UNCHANGED <<pc, attempts, storedToken, isInitialized, error>>
    /\ UNCHANGED <<signOuts, lastSignOut, tsOp>>
    /\ UNCHANGED viewVars
    /\ UNCHANGED apiVars

\* The callback of initTokenClient (auth.ts 30-39) calling the callback
\* registered by the Session Controller (AuthProvider.tsx 114-121).
TokenCallback(request, response) ==
    /\ tokenRequests' = tokenRequests (-) SetToBag({request})
    /\ IF response.error
       THEN UNCHANGED <<accessToken, gapiToken, localStorage, isSignedIn>>
       ELSE IF response.access_token # Null
       THEN /\ accessToken' = response.access_token
            /\ gapiToken' = response.access_token
            /\ localStorage' = storeToken(response, localStorage, now)
            /\ isSignedIn' = TRUE
       ELSE UNCHANGED <<accessToken, gapiToken, localStorage, isSignedIn>>
    /\ UNCHANGED <<now, gapiLib, googleLib, tokenClient>>
    /\ UNCHANGED <<pc, attempts, storedToken, isInitialized, error>>
    /\ UNCHANGED <<signOuts, lastSignOut, tsOp>>
    /\ UNCHANGED viewVars
    /\ UNCHANGED apiVars

\* The vendor answers a token request.
TokenResponse ==
    \E request \in BagToSet(tokenRequests), response \in TokenResponses :
        TokenCallback(request, response)

\* The vendor's answers that differ for the view: an error payload, a token.
ViewTokenResponses ==
    {[error |-> TRUE, access_token |-> Null, expires_in |-> 0],
     [error |-> FALSE, access_token |-> "tokA", expires_in |-> 1]}

ViewTokenResponse ==
    \E request \in BagToSet(tokenRequests), response \in ViewTokenResponses :
        TokenCallback(request, response)

\* The vendor never answers (popup closed, silent request refused): no
\* callback is invoked.
TokenRequestDropped ==
    /\ \E request \in BagToSet(tokenRequests) :
          tokenRequests' = tokenRequests (-) SetToBag({request})
    /\ UNCHANGED <<now, localStorage, gapiLib, googleLib, gapiToken>>
    /\ UNCHANGED <<authVars, ctlVars, viewVars, histVars>>
    /\ UNCHANGED apiVars

\* signIn of the provider, from the view's "Sign In with Google" button.
signIn ==
    /\ Mounted
    /\ ~isSignedIn
    /\ BagCardinality(tokenRequests) < MaxTokenRequests
    /\ tokenRequests' = requestAccessToken("select", tokenClient)
    /\ UNCHANGED <<now, localStorage, gapiLib, googleLib, gapiToken>>
    /\ UNCHANGED <<authVars, ctlVars, viewVars, histVars>>
    /\ UNCHANGED apiVars

\* signOut of auth.ts: the token revoke is called with (Null: no call), and
\* the module's token afterwards.
gisSignOut ==
    IF accessToken # Null
    THEN [revoked |-> accessToken, accessToken |-> Null]
    ELSE [revoked |-> Null, accessToken |-> accessToken]

\* A plausible slip in signOut: setIsSignedIn(false) is missing.
signOutKeepsSignedIn ==
    /\ Mounted
    /\ isSignedIn
    /\ signOuts < MaxSignOuts
    /\ gapiToken' = Null
    /\ localStorage' = clearStoredToken
    /\ accessToken' = gisSignOut.accessToken
    /\ signOuts' = signOuts + 1
    /\ lastSignOut' = [tokenInUse |-> gapiToken, revoked |-> gisSignOut.revoked]
    /\ UNCHANGED <<now, gapiLib, googleLib, tokenRequests, tokenClient>>
    /\ UNCHANGED <<pc, attempts, storedToken, isSignedIn, isInitialized, error, tsOp>>
    /\ UNCHANGED viewVars
    /\ UNCHANGED apiVars

\* signOut of the provider, from the view's "Sign Out" button.
signOut ==
    /\ Mounted
    /\ isSignedIn
    /\ signOuts < MaxSignOuts
    /\ gapiToken' = Null
    /\ isSignedIn' = FALSE
    /\ localStorage' = clearStoredToken
    /\ accessToken' = gisSignOut.accessToken
    /\ signOuts' = signOuts + 1
    /\ lastSignOut' = [tokenInUse |-> gapiToken, revoked |-> gisSignOut.revoked]
    /\ UNCHANGED <<now, gapiLib, googleLib, tokenRequests, tokenClient>>
    /\ UNCHANGED <<pc, attempts, storedToken, isInitialized, error, tsOp>>
    /\ UNCHANGED viewVars
    /\ UNCHANGED apiVars

\* Time passes.
Advance == \E t \in Times : t > now /\ now' = t

Tick ==
    /\ Advance
    /\ UNCHANGED <<localStorage, gapiLib, googleLib, gapiToken, tokenRequests>>
    /\ UNCHANGED <<authVars, ctlVars, viewVars, histVars>>
    /\ UNCHANGED apiVars

-----------------------------------------------------------------------------
(* Strings.  A JavaScript string is a sequence of tokens: a token is a run *)
(* of characters the code never looks inside ("\r\n", "--", the boundary,  *)
(* an extension, a run of other text).                                     *)

CRLF == "<CRLF>"

StartsWith(str, prefix) ==
    /\ Len(str) >= Len(prefix)
    /\ SubSeq(str, 1, Len(prefix)) = prefix

EndsWith(str, suffix) ==
    /\ Len(str) >= Len(suffix)
    /\ SubSeq(str, Len(str) - Len(suffix) + 1, Len(str)) = suffix

\* The places where marker occurs in str.
Occurrences(str, marker) ==
    {i \in 1..(Len(str) - Len(marker) + 1) : SubSeq(str, i, i + Len(marker) - 1) = marker}

Min(S) == CHOOSE x \in S : \A y \in S : x <= y

\* str.split(marker)
RECURSIVE Split(_, _)
Split(str, marker) ==
    IF Occurrences(str, marker) = {}
    THEN <<str>>
    ELSE LET i == Min(Occurrences(str, marker))
         IN <<SubSeq(str, 1, i - 1)>>
            \o Split(SubSeq(str, i + Len(marker), Len(str)), marker)

NativePrefix == "application/vnd.google-apps"

\* mimeType.startsWith('application/vnd.google-apps')
isGoogleAppsFile(mimeType) == StartsWith(mimeType, <<NativePrefix>>)

-----------------------------------------------------------------------------
(* File Manager View: MainPage.tsx *)

ErrFetch    == "Failed to fetch files. Please try again."
ErrCreate   == "Failed to create file. Please try again."
ErrDelete   == "Failed to delete file. Please try again."
ErrUpload   == "Failed to upload file. Please try again."
ErrDownload == "Failed to download file. Please try again."

\* Remote File Descriptors as a list call returns them; the second has no
\* id, the third is a provider-native document.
DriveFile(id, name, mimeType) == [id |-> id, name |-> name, mimeType |-> mimeType]

FileLists ==
    { <<>>,
      <<DriveFile("f1", <<"notes.txt">>, <<"text/plain">>),
        DriveFile("", <<"ghost">>, <<"text/plain">>)>>,
      <<DriveFile("f2", <<"report">>, <<NativePrefix, ".document">>)>> }

\* The files of the file input.
LocalFiles == {"a.txt"}

Call(op, arg) == [op |-> op, arg |-> arg]
ListCall      == Call("list", "")
CreateCall    == Call("create", "")

Started(c)  == calls (+) SetToBag({c})
Finished(c) == calls (-) SetToBag({c})
Pending(op) == {c \in BagToSet(calls) : c.op = op}
Room        == BagCardinality(calls) < MaxCalls

\* What MainPage renders for a signed-in user.
SignedInView == Mounted /\ isSignedIn

\* fetchFiles() up to its await, with inFlight the calls in flight before it.
fetchFiles(inFlight) ==
    /\ loading' = TRUE
    /\ viewError' = Null
    /\ calls' = inFlight (+) SetToBag({ListCall})

\* useEffect(..., [isSignedIn]): runs after mount and after each render
\* in which isSignedIn differs from the one it last ran with.
SignedInEffect ==
    /\ Mounted
    /\ effectSeen # Some(isSignedIn)
    /\ effectSeen' = Some(isSignedIn)
    /\ IF isSignedIn
       THEN /\ fetchFiles(calls)
            /\ UNCHANGED files
       ELSE /\ files' = <<>>
            /\ UNCHANGED <<loading, viewError, calls>>
    /\ UNCHANGED selectedFile
    /\ UNCHANGED <<envVars, authVars, ctlVars, histVars>>
    /\ UNCHANGED apiVars

\* A plausible slip in fetchFiles: the result is added to the list shown.
ListFilesResolvedMerges ==
    /\ ListCall \in BagToSet(calls)
    /\ \E apiFiles \in FileLists :
          files' = files \o SelectSeq(apiFiles, LAMBDA file : file.id # "")
    /\ loading' = FALSE
    /\ calls' = Finished(ListCall)
    /\ UNCHANGED <<viewError, selectedFile, effectSeen>>
    /\ UNCHANGED <<envVars, authVars, ctlVars, histVars>>
    /\ UNCHANGED apiVars

\* fetchFiles(): listFiles() resolved.
ListFilesResolved ==
    /\ ListCall \in BagToSet(calls)
    /\ \E apiFiles \in FileLists :
          files' = SelectSeq(apiFiles, LAMBDA file : file.id # "")
    /\ loading' = FALSE
    /\ calls' = Finished(ListCall)
    /\ UNCHANGED <<viewError, selectedFile, effectSeen>>
    /\ UNCHANGED <<envVars, authVars, ctlVars, histVars>>
    /\ UNCHANGED apiVars

\* fetchFiles(): listFiles() rejected.
ListFilesRejected ==
    /\ ListCall \in BagToSet(calls)
    /\ viewError' = ErrFetch
    /\ loading' = FALSE
    /\ calls' = Finished(ListCall)
    /\ UNCHANGED <<files, selectedFile, effectSeen>>
    /\ UNCHANGED <<envVars, authVars, ctlVars, histVars>>
    /\ UNCHANGED apiVars

\* handleCreateFile() up to its await.
handleCreateFile ==
    /\ SignedInView
    /\ Room
    /\ viewError' = Null
    /\ calls' = Started(CreateCall)
    /\ UNCHANGED <<files, loading, selectedFile, effectSeen>>
    /\ UNCHANGED <<envVars, authVars, ctlVars, histVars>>
    /\ UNCHANGED apiVars

\* handleCreateFile(): createFile() resolved.
CreateFileResolved ==
    /\ CreateCall \in BagToSet(calls)
    /\ fetchFiles(Finished(CreateCall))
    /\ UNCHANGED <<files, selectedFile, effectSeen>>
    /\ UNCHANGED <<envVars, authVars, ctlVars, histVars>>
    /\ UNCHANGED apiVars

\* A plausible slip in handleCreateFile: the list is refreshed in the catch
\* block as well.
CreateFileRejectedRefreshes ==
    /\ CreateCall \in BagToSet(calls)
    /\ loading' = TRUE
    /\ calls' = Finished(CreateCall) (+) SetToBag({ListCall})
    /\ viewError' = ErrCreate
    /\ UNCHANGED <<files, selectedFile, effectSeen>>
    /\ UNCHANGED <<envVars, authVars, ctlVars, histVars>>
    /\ UNCHANGED apiVars

\* handleCreateFile(): createFile() rejected.
CreateFileRejected ==
    /\ CreateCall \in BagToSet(calls)
    /\ viewError' = ErrCreate
    /\ calls' = Finished(CreateCall)
    /\ UNCHANGED <<files, loading, selectedFile, effectSeen>>
    /\ UNCHANGED <<envVars, authVars, ctlVars, histVars>>
    /\ UNCHANGED apiVars

\* The files the list shows with their buttons.
Listed == IF loading THEN {} ELSE {files[i] : i \in 1..Len(files)}

\* handleDeleteFile(fileId, fileName), confirmed, up to its await.  (A
\* cancelled confirmation returns without any change.)
handleDeleteFile ==
    /\ SignedInView
    /\ Room
    /\ Listed # {}
    /\ calls' = Started(Call("delete", ""))
    /\ viewError' = Null
    /\ UNCHANGED <<files, loading, selectedFile, effectSeen>>
    /\ UNCHANGED <<envVars, authVars, ctlVars, histVars>>
    /\ UNCHANGED apiVars

\* handleDeleteFile(): deleteFile() resolved.
DeleteFileResolved ==
    /\ \E c \in Pending("delete") : fetchFiles(Finished(c))
    /\ UNCHANGED <<files, selectedFile, effectSeen>>
    /\ UNCHANGED <<envVars, authVars, ctlVars, histVars>>
    /\ UNCHANGED apiVars

\* handleDeleteFile(): deleteFile() rejected.
DeleteFileRejected ==
    /\ \E c \in Pending("delete") : calls' = Finished(c)
    /\ viewError' = ErrDelete
    /\ UNCHANGED <<files, loading, selectedFile, effectSeen>>
    /\ UNCHANGED <<envVars, authVars, ctlVars, histVars>>
    /\ UNCHANGED apiVars

\* handleFileChange(event): event.target.files?.[0] ?? null.
handleFileChange ==
    /\ SignedInView
    /\ \E nextFile \in LocalFiles \cup {Null} :
          /\ nextFile # selectedFile
          /\ selectedFile' = nextFile
    /\ UNCHANGED <<files, loading, viewError, effectSeen, calls>>
    /\ UNCHANGED <<envVars, authVars, ctlVars, histVars>>
    /\ UNCHANGED apiVars

\* handleUploadFile() up to its await; the button is disabled while no file
\* is selected.
handleUploadFile ==
    /\ SignedInView
    /\ Room
    /\ selectedFile # Null
    /\ viewError' = Null
    /\ calls' = Started(Call("upload", selectedFile))
    /\ UNCHANGED <<files, loading, selectedFile, effectSeen>>
    /\ UNCHANGED <<envVars, authVars, ctlVars, histVars>>
    /\ UNCHANGED apiVars

\* handleUploadFile(): uploadFile() resolved.
UploadFileResolved ==
    /\ \E c \in Pending("upload") : fetchFiles(Finished(c))
    /\ selectedFile' = Null
    /\ UNCHANGED <<files, effectSeen>>
    /\ UNCHANGED <<envVars, authVars, ctlVars, histVars>>
    /\ UNCHANGED apiVars

\* A plausible slip in handleUploadFile: the selection is cleared in the
\* catch block as well.
UploadFileRejectedClears ==
    /\ \E c \in Pending("upload") : calls' = Finished(c)
    /\ viewError' = ErrUpload
    /\ selectedFile' = Null
    /\ UNCHANGED <<files, loading, effectSeen>>
    /\ UNCHANGED <<envVars, authVars, ctlVars, histVars>>
    /\ UNCHANGED apiVars

\* handleUploadFile(): uploadFile() rejected.
UploadFileRejected ==
    /\ \E c \in Pending("upload") : calls' = Finished(c)
    /\ viewError' = ErrUpload
    /\ UNCHANGED <<files, loading, selectedFile, effectSeen>>
    /\ UNCHANGED <<envVars, authVars, ctlVars, histVars>>
    /\ UNCHANGED apiVars

\* handleDownloadFile(fileId, fileName, fileType) up to its await; the
\* button is disabled for provider-native files.
handleDownloadFile ==
    /\ SignedInView
    /\ Room
    /\ \E file \in Listed : ~isGoogleAppsFile(file.mimeType)
    /\ calls' = Started(Call("download", ""))
    /\ viewError' = Null
    /\ UNCHANGED <<files, loading, selectedFile, effectSeen>>
    /\ UNCHANGED <<envVars, authVars, ctlVars, histVars>>
    /\ UNCHANGED apiVars

\* handleDownloadFile(): downloadFile() resolved.
DownloadFileResolved ==
    /\ \E c \in Pending("download") : calls' = Finished(c)
    /\ UNCHANGED <<files, loading, viewError, selectedFile, effectSeen>>
    /\ UNCHANGED <<envVars, authVars, ctlVars, histVars>>
    /\ UNCHANGED apiVars

\* handleDownloadFile(): downloadFile() rejected.
DownloadFileRejected ==
    /\ \E c \in Pending("download") : calls' = Finished(c)
    /\ viewError' = ErrDownload
    /\ UNCHANGED <<files, loading, selectedFile, effectSeen>>
    /\ UNCHANGED <<envVars, authVars, ctlVars, histVars>>
    /\ UNCHANGED apiVars

\* The close button of the alert: setError(null).
DismissError ==
    /\ SignedInView
    /\ viewError # Null
    /\ viewError' = Null
    /\ UNCHANGED <<files, loading, selectedFile, effectSeen, calls>>
    /\ UNCHANGED <<envVars, authVars, ctlVars, histVars>>
    /\ UNCHANGED apiVars

-----------------------------------------------------------------------------
(* Storage Client: services/googleApi.ts.  One call at a time, from its    *)
(* start to what its caller receives.                                      *)

ErrTransport   == "transport failure"
ErrRead        == "Failed to read file."
ErrListApi     == "Failed to retrieve files from Google Drive."
ErrCreateApi   == "Failed to create file in Google Drive."
ErrUploadApi   == "Failed to upload file to Google Drive."
ErrDownloadApi == "Failed to download file from Google Drive."
ErrDeleteApi   == "Failed to delete file from Google Drive."
ErrShare       == "Failed to share file with other users."
ErrNoTargets   == "No sharing targets configured."
ErrUnsupported == "Unsupported Google Docs export type."

ALLOWED_EDIT_DOMAINS == <<"studiographene.com">>

boundary    == "foo_bar_baz"
delimiter   == <<CRLF, "--", boundary, CRLF>>
close_delim == <<CRLF, "--", boundary, "--">>

OctetStream == <<"application/octet-stream">>
TextPlain   == <<"text/plain">>

\* The ids the remote side gives to new files; 0 stands for no id.
Ids == 1..MaxRemoteFiles

\* Inputs of the calls.
FileNames ==
    { <<>>, <<"report">>, <<"report", ".docx">>, <<"sheet", ".xlsx">>,
      <<"x", "--", boundary, "y">> }

Contents ==
    { <<>>, <<"Hello, Google Drive!">>,
      <<"x", CRLF, "--", boundary, CRLF, "y">> }

MimeTypes ==
    { <<>>, TextPlain,
      <<NativePrefix, ".document">>, <<NativePrefix, ".spreadsheet">>,
      <<NativePrefix, ".presentation">>, <<NativePrefix, ".folder">>,
      <<NativePrefix>> }

\* Local files of the file input: name, type (may be empty) and bytes.
LocalUploads ==
    { [name |-> <<"a.txt">>, type |-> TextPlain, data |-> <<"Hello">>],
      [name |-> <<"b.bin">>, type |-> <<>>, data |-> <<"--", boundary>>],
      [name |-> <<"--", boundary>>, type |-> TextPlain, data |-> <<>>] }

NoArgs == [op |-> "none", name |-> <<>>, mimeType |-> <<>>, data |-> <<>>, fileId |-> 0]

NoLocals ==
    [requestBody |-> <<>>, createdId |-> 0, downloadMimeType |-> <<>>,
     downloadName |-> <<>>]

NoBrowser ==
    [blobs |-> 0, blobType |-> <<>>, urlsCreated |-> 0, urlsRevoked |-> 0,
     savedAs |-> <<>>]

Resolved      == Some([status |-> "resolved", error |-> ""])
Rejected(err) == Some([status |-> "rejected", error |-> err])

Request(kind, arg) == [kind |-> kind, arg |-> arg]

\* JSON.stringify of a string: quotes around it, line breaks and quotes
\* escaped; every other character as it is.
JSONstring(str) ==
    <<"\"">>
    \o [i \in 1..Len(str) |->
           IF str[i] = CRLF THEN "\\r\\n"
           ELSE IF str[i] = "\"" THEN "\\\""
           ELSE str[i]]
    \o <<"\"">>

\* JSON.stringify(metadata)
JSONmetadata(name, contentType, folder) ==
    <<"{", "\"name\":">> \o JSONstring(name)
    \o <<",", "\"mimeType\":">> \o JSONstring(contentType)
    \o (IF folder # Null
        THEN <<",", "\"parents\":[">> \o JSONstring(<<folder>>) \o <<"]">>
        ELSE <<>>)
    \o <<"}">>

\* const multipartRequestBody = ... of createFile and of uploadFile;
\* encoding is the Content-Transfer-Encoding line of uploadFile, if any.
multipartRequestBody(name, contentType, encoding, data) ==
    delimiter \o <<"Content-Type: application/json", CRLF, CRLF>>
    \o JSONmetadata(name, contentType, SHARED_FOLDER_ID)
    \o delimiter \o <<"Content-Type: ">> \o contentType \o <<CRLF>>
    \o encoding \o <<CRLF>>
    \o data
    \o close_delim

\* Base64 of a run of bytes: letters, digits, + / and = only.
Base64(data) ==
    [i \in 1..Len(data) |->
        IF data[i] = "--" THEN "LS0t"
        ELSE IF data[i] = boundary THEN "Zm9vX2Jhcl9iYXo="
        ELSE IF data[i] = CRLF THEN "DQo="
        ELSE "SGVsbG8="]

\* reader.readAsDataURL(file), then reader.result.split(',')[1] || ''
readFileAsBase64(file) ==
    LET dataUrl == <<"data:">> \o file.type \o <<";base64", ",">> \o Base64(file.data)
        pieces  == Split(dataUrl, <<",">>)
    IN IF Len(pieces) >= 2 THEN pieces[2] ELSE <<>>

\* The catch blocks: whatever was thrown, the operation's own message.
setFilePublicCatch(err) == ErrShare
operationCatch(op, err) ==
    CASE op = "createFile"   -> ErrCreateApi
      [] op = "uploadFile"   -> ErrUploadApi
      [] op = "downloadFile" -> ErrDownloadApi
      [] op = "deleteFile"   -> ErrDeleteApi
      [] op = "listFiles"    -> ErrListApi

StartCall(args) ==
    /\ apiPc \in {"idle", "done"}
    /\ apiArgs' = args
    /\ browser' = NoBrowser

Fail(err) ==
    /\ outcome' = Rejected(operationCatch(apiArgs.op, err))
    /\ apiPc' = "done"

\* createFile(name, content) up to its await of the multipart request.
CallCreateFile ==
    /\ \E name \in FileNames, content \in Contents :
          /\ StartCall([NoArgs EXCEPT !.op = "createFile", !.name = name,
                                      !.mimeType = TextPlain, !.data = content])
          /\ apiLocal' = [NoLocals EXCEPT !.requestBody =
                            multipartRequestBody(name, TextPlain, <<>>, content)]
    /\ issued' = <<Request("multipart", 0)>>
    /\ outcome' = None
    /\ apiPc' = "uploading"
    /\ UNCHANGED <<SHARED_FOLDER_ID, ALLOWED_EDIT_EMAILS, remoteFiles>>
    /\ UNCHANGED appVars

\* uploadFile(file) up to its await of readFileAsBase64.
CallUploadFile ==
    /\ \E file \in LocalUploads :
          StartCall([NoArgs EXCEPT !.op = "uploadFile", !.name = file.name,
                                   !.mimeType = file.type, !.data = file.data])
    /\ apiLocal' = NoLocals
    /\ issued' = <<>>
    /\ outcome' = None
    /\ apiPc' = "reading"
    /\ UNCHANGED <<SHARED_FOLDER_ID, ALLOWED_EDIT_EMAILS, remoteFiles>>
    /\ UNCHANGED appVars

\* The FileReader fails: reader.onerror.
FileReadFailed ==
    /\ apiPc = "reading"
    /\ Fail(ErrRead)
    /\ UNCHANGED <<SHARED_FOLDER_ID, ALLOWED_EDIT_EMAILS, apiArgs, apiLocal,
                   issued, remoteFiles, browser>>
    /\ UNCHANGED appVars

\* The FileReader loads: uploadFile goes on to its multipart request.
FileReadLoaded ==
    /\ apiPc = "reading"
    /\ LET file        == [type |-> apiArgs.mimeType, data |-> apiArgs.data]
           contentType == IF apiArgs.mimeType # <<>> THEN apiArgs.mimeType
                          ELSE OctetStream
           base64Data  == readFileAsBase64(file)
       IN apiLocal' = [apiLocal EXCEPT !.requestBody =
               multipartRequestBody(apiArgs.name, contentType,
                   <<"Content-Transfer-Encoding: base64", CRLF>>, base64Data)]
    /\ issued' = Append(issued, Request("multipart", 0))
    /\ apiPc' = "uploading"
    /\ UNCHANGED <<SHARED_FOLDER_ID, ALLOWED_EDIT_EMAILS, apiArgs, remoteFiles,
                   browser, outcome>>
    /\ UNCHANGED appVars

\* The multipart request is rejected.
MultipartRejected ==
    /\ apiPc = "uploading"
    /\ Fail(ErrTransport)
    /\ UNCHANGED <<SHARED_FOLDER_ID, ALLOWED_EDIT_EMAILS, apiArgs, apiLocal,
                   issued, remoteFiles, browser>>
    /\ UNCHANGED appVars

\* const permissionRequests = [...] of setFilePublic: one request per
\* domain and per e-mail address.
permissionRequests(fileId) ==
    [i \in 1..Len(ALLOWED_EDIT_DOMAINS) |->
        Request("permission", ALLOWED_EDIT_DOMAINS[i])]
    \o [i \in 1..Len(ALLOWED_EDIT_EMAILS) |->
        Request("permission", ALLOWED_EDIT_EMAILS[i])]

\* The multipart request is resolved: the file exists on the remote side;
\* with an id in the response, setFilePublic(id) up to its await.
MultipartResolved ==
    /\ apiPc = "uploading"
    /\ \E id \in (Ids \ remoteFiles) \cup {0} :
          /\ apiLocal' = [apiLocal EXCEPT !.createdId = id]
          /\ IF id = 0
             THEN /\ outcome' = Resolved
                  /\ apiPc' = "done"
                  /\ UNCHANGED <<issued, remoteFiles>>
             ELSE /\ remoteFiles' = remoteFiles \cup {id}
                  /\ issued' = issued \o permissionRequests(id)
                  /\ IF Len(permissionRequests(id)) = 0
                     THEN Fail(setFilePublicCatch(ErrNoTargets))
                     ELSE /\ apiPc' = "sharing"
                          /\ UNCHANGED outcome
    /\ UNCHANGED <<SHARED_FOLDER_ID, ALLOWED_EDIT_EMAILS, apiArgs, browser>>
    /\ UNCHANGED appVars

\* await Promise.all(permissionRequests) of setFilePublic is resolved.
PermissionsGranted ==
    /\ apiPc = "sharing"
    /\ outcome' = Resolved
    /\ apiPc' = "done"
    /\ UNCHANGED <<SHARED_FOLDER_ID, ALLOWED_EDIT_EMAILS, apiArgs, apiLocal,
                   issued, remoteFiles, browser>>
    /\ UNCHANGED appVars

\* One of the permission requests is rejected.
PermissionsRejected ==
    /\ apiPc = "sharing"
    /\ Fail(setFilePublicCatch(ErrTransport))
    /\ UNCHANGED <<SHARED_FOLDER_ID, ALLOWED_EDIT_EMAILS, apiArgs, apiLocal,
                   issued, remoteFiles, browser>>
    /\ UNCHANGED appVars

exportMap ==
    [m \in {<<NativePrefix, ".document">>, <<NativePrefix, ".spreadsheet">>,
            <<NativePrefix, ".presentation">>} |->
        CASE m = <<NativePrefix, ".document">> ->
               [mimeType |-> <<"application/vnd.openxmlformats-officedocument.wordprocessingml.document">>,
                extension |-> <<".docx">>]
          [] m = <<NativePrefix, ".spreadsheet">> ->
               [mimeType |-> <<"application/vnd.openxmlformats-officedocument.spreadsheetml.sheet">>,
                extension |-> <<".xlsx">>]
          [] m = <<NativePrefix, ".presentation">> ->
               [mimeType |-> <<"application/vnd.openxmlformats-officedocument.presentationml.presentation">>,
                extension |-> <<".pptx">>]]

Details(throws, downloadMimeType, downloadName) ==
    [throws |-> throws, downloadMimeType |-> downloadMimeType,
     downloadName |-> downloadName]

\* A plausible slip in getDownloadDetails: an unmapped native type falls
\* back to a plain download instead of throwing.
getDownloadDetailsFallback(mimeType, fileName) ==
    IF ~StartsWith(mimeType, <<NativePrefix>>) \/ mimeType \notin DOMAIN exportMap
    THEN Details(FALSE, IF mimeType # <<>> THEN mimeType ELSE OctetStream, fileName)
    ELSE LET exportInfo     == exportMap[mimeType]
             normalizedName == IF fileName # <<>> THEN fileName ELSE <<"download">>
         IN Details(FALSE, exportInfo.mimeType,
                    IF EndsWith(normalizedName, exportInfo.extension)
                    THEN normalizedName
                    ELSE normalizedName \o exportInfo.extension)

\* getDownloadDetails(mimeType, fileName); throws: 'Unsupported Google Docs
\* export type.'
getDownloadDetails(mimeType, fileName) ==
    IF ~StartsWith(mimeType, <<NativePrefix>>)
    THEN Details(FALSE, IF mimeType # <<>> THEN mimeType ELSE OctetStream, fileName)
    ELSE IF mimeType \notin DOMAIN exportMap
    THEN Details(TRUE, <<>>, <<>>)
    ELSE LET exportInfo     == exportMap[mimeType]
             normalizedName == IF fileName # <<>> THEN fileName ELSE <<"download">>
         IN Details(FALSE, exportInfo.mimeType,
                    IF EndsWith(normalizedName, exportInfo.extension)
                    THEN normalizedName
                    ELSE normalizedName \o exportInfo.extension)

\* downloadFile(fileId, fileName, mimeType) up to its await of the request.
CallDownloadFile ==
    /\ \E fileId \in Ids, fileName \in FileNames, mimeType \in MimeTypes :
          /\ StartCall([NoArgs EXCEPT !.op = "downloadFile", !.name = fileName,
                                      !.mimeType = mimeType, !.fileId = fileId])
          /\ LET details == getDownloadDetails(mimeType, fileName)
             IN IF details.throws
                THEN /\ outcome' = Rejected(operationCatch("downloadFile", ErrUnsupported))
                     /\ apiPc' = "done"
                     /\ apiLocal' = NoLocals
                     /\ issued' = <<>>
                ELSE /\ apiLocal' = [NoLocals EXCEPT
                                       !.downloadMimeType = details.downloadMimeType,
                                       !.downloadName = details.downloadName]
                     /\ issued' = <<Request(IF isGoogleAppsFile(mimeType)
                                            THEN "export" ELSE "media", fileId)>>
                     /\ outcome' = None
                     /\ apiPc' = "downloading"
    /\ UNCHANGED <<SHARED_FOLDER_ID, ALLOWED_EDIT_EMAILS, remoteFiles>>
    /\ UNCHANGED appVars

\* The export or media request is rejected.
DownloadRejected ==
    /\ apiPc = "downloading"
    /\ Fail(ErrTransport)
    /\ UNCHANGED <<SHARED_FOLDER_ID, ALLOWED_EDIT_EMAILS, apiArgs, apiLocal,
                   issued, remoteFiles, browser>>
    /\ UNCHANGED appVars

\* The request is resolved: Blob, object URL, anchor click, revoke.
DownloadResolved ==
    /\ apiPc = "downloading"
    /\ browser' = [blobs |-> browser.blobs + 1,
                   blobType |-> IF apiLocal.downloadMimeType # <<>>
                                THEN apiLocal.downloadMimeType ELSE OctetStream,
                   urlsCreated |-> browser.urlsCreated + 1,
                   urlsRevoked |-> browser.urlsRevoked + 1,
                   savedAs |-> IF apiLocal.downloadName # <<>>
                               THEN apiLocal.downloadName ELSE <<"download">>]
    /\ outcome' = Resolved
    /\ apiPc' = "done"
    /\ UNCHANGED <<SHARED_FOLDER_ID, ALLOWED_EDIT_EMAILS, apiArgs, apiLocal,
                   issued, remoteFiles>>
    /\ UNCHANGED appVars

\* deleteFile(fileId) up to its await.
CallDeleteFile ==
    /\ \E fileId \in Ids :
          /\ StartCall([NoArgs EXCEPT !.op = "deleteFile", !.fileId = fileId])
          /\ issued' = <<Request("delete", fileId)>>
    /\ apiLocal' = NoLocals
    /\ outcome' = None
    /\ apiPc' = "deleting"
    /\ UNCHANGED <<SHARED_FOLDER_ID, ALLOWED_EDIT_EMAILS, remoteFiles>>
    /\ UNCHANGED appVars

DeleteResolved ==
    /\ apiPc = "deleting"
    /\ remoteFiles' = remoteFiles \ {apiArgs.fileId}
    /\ outcome' = Resolved
    /\ apiPc' = "done"
    /\ UNCHANGED <<SHARED_FOLDER_ID, ALLOWED_EDIT_EMAILS, apiArgs, apiLocal,
                   issued, browser>>
    /\ UNCHANGED appVars

DeleteRejected ==
    /\ apiPc = "deleting"
    /\ Fail(ErrTransport)
    /\ UNCHANGED <<SHARED_FOLDER_ID, ALLOWED_EDIT_EMAILS, apiArgs, apiLocal,
                   issued, remoteFiles, browser>>
    /\ UNCHANGED appVars

-----------------------------------------------------------------------------
(* Token Store on its own: the three operations applied to any stored text *)

ApplyReadStoredToken ==
    /\ storedToken' = readStoredToken(localStorage, now)
    /\ tsOp' = "read"
    /\ UNCHANGED <<envVars, authVars, viewVars, apiVars>>
    /\ UNCHANGED <<pc, attempts, isSignedIn, isInitialized, error, signOuts, lastSignOut>>

ApplyStoreToken ==
    /\ \E tokenResponse \in TokenResponses :
          localStorage' = storeToken(tokenResponse, localStorage, now)
    /\ tsOp' = "store"
    /\ UNCHANGED <<now, gapiLib, googleLib, gapiToken, tokenRequests>>
    /\ UNCHANGED <<authVars, ctlVars, viewVars, apiVars, signOuts, lastSignOut>>

ApplyClearStoredToken ==
    /\ localStorage' = clearStoredToken
    /\ tsOp' = "clear"
    /\ UNCHANGED <<now, gapiLib, googleLib, gapiToken, tokenRequests>>
    /\ UNCHANGED <<authVars, ctlVars, viewVars, apiVars, signOuts, lastSignOut>>

ClockAdvance ==
    /\ Advance
    /\ tsOp' = "tick"
    /\ UNCHANGED <<localStorage, gapiLib, googleLib, gapiToken, tokenRequests>>
    /\ UNCHANGED <<authVars, ctlVars, viewVars, apiVars, signOuts, lastSignOut>>

-----------------------------------------------------------------------------
vars == <<envVars, authVars, ctlVars, viewVars, histVars, apiVars>>

\* The page before its first task: nothing loaded, nothing rendered.
PageLoaded ==
    /\ gapiLib = FALSE
    /\ googleLib = "undefined"
    /\ gapiToken = Null
    /\ tokenRequests = EmptyBag
    /\ tokenClient = FALSE
    /\ accessToken = Null
    /\ pc = "wait"
    /\ attempts = 0
    /\ storedToken = None
    /\ isSignedIn = FALSE
    /\ isInitialized = FALSE
    /\ error = Null
    /\ files = <<>>
    /\ loading = FALSE
    /\ viewError = Null
    /\ selectedFile = Null
    /\ effectSeen = None
    /\ calls = EmptyBag
    /\ signOuts = 0
    /\ lastSignOut = [tokenInUse |-> Null, revoked |-> Null]
    /\ tsOp = "none"

\* No Storage Client call yet.
ApiIdle ==
    /\ apiPc = "idle"
    /\ apiArgs = NoArgs
    /\ apiLocal = NoLocals
    /\ issued = <<>>
    /\ browser = NoBrowser
    /\ outcome = None

\* A build with no folder restriction and no e-mail addresses, and a remote
\* side with no files.
DefaultBuild ==
    /\ SHARED_FOLDER_ID = Null
    /\ ALLOWED_EDIT_EMAILS = <<>>
    /\ remoteFiles = {}

\* The session: the page is loaded at any instant, over any stored text.
Init ==
    /\ now \in Times
    /\ localStorage \in StoredValues
    /\ PageLoaded
    /\ ApiIdle
    /\ DefaultBuild

\* The Session Controller and the Auth Session.  The view's handlers read
\* isSignedIn and change only the view's own state, so they are left to
\* SpecView.
Next ==
    \/ ScriptLoaded
    \/ checkLibraries
    \/ GapiLoaded
    \/ GapiInitFailed
    \/ InitGIS
    \/ InitGISThrew
    \/ TokenResponse
    \/ TokenRequestDropped
    \/ signIn
    \/ signOut
    \/ Tick

Spec == Init /\ [][Next]_vars

\* The page with its view: loaded over no stored text or over a credential
\* that is still valid.  The view reads neither the clock nor the stored
\* text, so the clock is left at the instant of the page load.
InitView ==
    /\ now = 0
    /\ localStorage \in {Absent, RawObject(TRUE, "tokA", TRUE, MaxNow + 1)}
    /\ PageLoaded
    /\ ApiIdle
    /\ DefaultBuild

NextView ==
    \/ ScriptLoaded
    \/ checkLibraries
    \/ GapiLoaded
    \/ GapiInitFailed
    \/ InitGIS
    \/ InitGISThrew
    \/ ViewTokenResponse
    \/ TokenRequestDropped
    \/ signIn
    \/ signOut
    \/ SignedInEffect
    \/ ListFilesResolved
    \/ ListFilesRejected
    \/ handleCreateFile
    \/ CreateFileResolved
    \/ CreateFileRejected
    \/ handleDeleteFile
    \/ DeleteFileResolved
    \/ DeleteFileRejected
    \/ handleFileChange
    \/ handleUploadFile
    \/ UploadFileResolved
    \/ UploadFileRejected
    \/ handleDownloadFile
    \/ DownloadFileResolved
    \/ DownloadFileRejected
    \/ DismissError

SpecView == InitView /\ [][NextView]_vars

\* The Token Store: any stored text, any instant, the operations in any
\* order.
InitToken ==
    /\ now \in Times
    /\ localStorage \in StoredValues
    /\ PageLoaded
    /\ ApiIdle
    /\ DefaultBuild

NextToken ==
    \/ ApplyReadStoredToken
    \/ ApplyStoreToken
    \/ ApplyClearStoredToken
    \/ ClockAdvance

SpecToken == InitToken /\ [][NextToken]_vars

\* The Storage Client: any build configuration, calls one after another.
InitApi ==
    /\ now = 0
    /\ localStorage = Absent
    /\ PageLoaded
    /\ ApiIdle
    /\ SHARED_FOLDER_ID \in {Null, "folder1"}
    /\ ALLOWED_EDIT_EMAILS \in {<<>>, <<"ann@example.com">>}
    /\ remoteFiles = {}

NextApi ==
    \/ CallCreateFile
    \/ CallUploadFile
    \/ FileReadFailed
    \/ FileReadLoaded
    \/ MultipartRejected
    \/ MultipartResolved
    \/ PermissionsGranted
    \/ PermissionsRejected
    \/ CallDownloadFile
    \/ DownloadRejected
    \/ DownloadResolved
    \/ CallDeleteFile
    \/ DeleteResolved
    \/ DeleteRejected

SpecApi == InitApi /\ [][NextApi]_vars

\* The startup alone: the effect of AuthProvider from the mount to Ready or
\* Error.  A timer set by setTimeout fires, so a pending check is taken.
InitStartup ==
    /\ now = 0
    /\ localStorage \in {Absent, RawObject(TRUE, "tokA", TRUE, MaxNow + 1)}
    /\ PageLoaded
    /\ ApiIdle
    /\ DefaultBuild

NextStartup ==
    \/ ScriptLoaded
    \/ checkLibraries
    \/ GapiLoaded
    \/ GapiInitFailed
    \/ InitGIS
    \/ InitGISThrew

SpecStartup == InitStartup /\ [][NextStartup]_vars /\ WF_vars(checkLibraries)

-----------------------------------------------------------------------------
(* The claims *)

\* C1: a sign-out leaves the Auth Session's token null, the execution
\* context's token null, the stored credential absent and signedIn false;
\* and after a sign-out signedIn becomes true again only by the answer to a
\* token request that was made after that sign-out.
C1_SignOutClearsUntilNewRequest ==
    [][ /\ (signOuts' = signOuts + 1) =>
             /\ accessToken' = Null
             /\ gapiToken' = Null
             /\ localStorage' = Absent
             /\ ~isSignedIn'
        /\ (signOuts > 0 /\ ~isSignedIn /\ isSignedIn') =>
             \E r \in BagToSet(tokenRequests) :
                /\ r.epoch = signOuts
                /\ tokenRequests' = tokenRequests (-) SetToBag({r})
      ]_vars

\* C2: readStoredToken returns absent for a record read at or after its
\* expiresAt, for a missing entry, for a text that is no JSON and for a
\* record lacking accessToken or expiresAt; otherwise it returns the stored
\* record unchanged.
C2_ReadStoredToken ==
    tsOp = "read" =>
        LET v        == localStorage
            isRecord == v.kind = "object"
            lacking  == \/ ~v.hasAccessToken \/ v.accessToken = ""
                        \/ ~v.hasExpiresAt \/ v.expiresAt = 0
        IN /\ (isRecord /\ v.hasExpiresAt /\ now >= v.expiresAt) => storedToken = None
           /\ (v.kind \in {"absent", "empty", "garbage", "jsonNull"}) => storedToken = None
           /\ (isRecord /\ lacking) => storedToken = None
           /\ (isRecord /\ ~lacking /\ now < v.expiresAt) =>
                 storedToken = Some([accessToken |-> v.accessToken,
                                     expiresAt |-> v.expiresAt])

\* C2 happens: a well-formed record is read at or after its expiry and is
\* treated as absent.
C2_Witness ==
    /\ tsOp = "read"
    /\ storedToken = None
    /\ localStorage.kind = "object"
    /\ localStorage.hasAccessToken /\ localStorage.accessToken \in Tokens
    /\ localStorage.hasExpiresAt /\ localStorage.expiresAt > 0
    /\ now >= localStorage.expiresAt

\* C3: the step that ends the initialization either installs the token of a
\* valid cached credential, sets signedIn and sends no token request, or
\* (no valid credential) sends exactly one silent token request and leaves
\* signedIn false; afterwards signedIn becomes true only when the token
\* callback delivers a token.
C3_InitRestoresOrAsksOnce ==
    [][ /\ (pc = "gapiInit" /\ pc' = "done") =>
             LET v     == localStorage
                 valid == /\ v.kind = "object"
                          /\ v.hasAccessToken /\ v.accessToken # ""
                          /\ v.hasExpiresAt /\ v.expiresAt # 0
                          /\ now < v.expiresAt
             IN IF valid
                THEN /\ gapiToken' = v.accessToken
                     /\ isSignedIn'
                     /\ tokenRequests' = tokenRequests
                     /\ tokenRequests' = EmptyBag
                ELSE /\ ~isSignedIn'
                     /\ gapiToken' = Null
                     /\ BagCardinality(tokenRequests') = 1
                     /\ \A r \in BagToSet(tokenRequests') : r.prompt = "silent"
        /\ (pc = "done" /\ ~isSignedIn /\ isSignedIn') =>
             /\ \E r \in BagToSet(tokenRequests) :
                   tokenRequests' = tokenRequests (-) SetToBag({r})
             /\ gapiToken' \in Tokens
             /\ accessToken' = gapiToken'
      ]_vars

\* C3 happens: the initialization found no valid credential, and the answer
\* to the silent request has signed the user in.
C3_Witness ==
    /\ pc = "done"
    /\ storedToken = None
    /\ isSignedIn
    /\ signOuts = 0
    /\ tokenRequests = EmptyBag

\* C4: listFiles is called only while signedIn is true, also when the
\* sign-out comes while a create, upload, delete or list call is in flight.
C4_ListOnlyWhenSignedIn ==
    [][ CopiesIn(ListCall, calls') > CopiesIn(ListCall, calls) => isSignedIn ]_vars

\* C5: every signOut that runs while signedIn is true sends a revoke request
\* for the token in use, whether the session came from the token callback or
\* from the cached credential.
C5_SignOutRevokesTokenInUse ==
    signOuts > 0 =>
        /\ lastSignOut.tokenInUse # Null
        /\ lastSignOut.revoked = lastSignOut.tokenInUse

\* C6: when the multipart request of createFile or uploadFile succeeded and
\* the permission step failed, the caller receives the sharing-failure
\* error, not the operation's own create/upload error, and the file stays
\* on the remote side: no delete is issued.
C6_SharingFailureIsDistinct ==
    ( /\ apiPc = "done"
      /\ apiArgs.op \in {"createFile", "uploadFile"}
      /\ apiLocal.createdId # 0
      /\ outcome # None /\ outcome[1].status = "rejected" ) =>
        /\ outcome[1].error \in {ErrShare, ErrNoTargets}
        /\ outcome[1].error \notin {ErrCreateApi, ErrUploadApi}
        /\ apiLocal.createdId \in remoteFiles
        /\ \A i \in 1..Len(issued) : issued[i].kind # "delete"

\* C7: the request body of createFile and uploadFile, split on the boundary
\* marker, is exactly the preamble, one JSON metadata part, one content part
\* and the closing "--", whatever the file name and the content.
C7_BodyHasTwoParts ==
    apiLocal.requestBody # <<>> =>
        LET parts == Split(apiLocal.requestBody, <<"--", boundary>>)
        IN /\ Len(parts) = 4
           /\ parts[1] = <<CRLF>>
           /\ StartsWith(parts[2], <<CRLF, "Content-Type: application/json">>)
           /\ StartsWith(parts[3], <<CRLF, "Content-Type: ">>)
           /\ parts[4] = <<"--">>

\* C8: a finished downloadFile of a document, spreadsheet or presentation
\* saved under a name ending in .docx, .xlsx or .pptx (the name itself when
\* it already ends so); of any other native type raised the
\* unsupported-export error to its caller; of a non-native type used the
\* media endpoint and saved under the unchanged name.
C8_DownloadNamesAndErrors ==
    (apiPc = "done" /\ apiArgs.op = "downloadFile") =>
        LET m     == apiArgs.mimeType
            saved == outcome = Resolved
        IN /\ (m \in DOMAIN exportMap /\ saved) =>
                 /\ EndsWith(browser.savedAs, exportMap[m].extension)
                 /\ EndsWith(apiArgs.name, exportMap[m].extension) =>
                       browser.savedAs = apiArgs.name
                 /\ issued = <<Request("export", apiArgs.fileId)>>
           /\ (isGoogleAppsFile(m) /\ m \notin DOMAIN exportMap) =>
                 outcome = Some([status |-> "rejected", error |-> ErrUnsupported])
           /\ (~isGoogleAppsFile(m) /\ saved) =>
                 /\ browser.savedAs = apiArgs.name
                 /\ issued = <<Request("media", apiArgs.fileId)>>

\* C9: a downloadFile of a native type without export mapping fails before
\* any request: no export or media request, no Blob and no object URL.
C9_UnsupportedFailsBeforeRequest ==
    ( /\ apiPc # "idle"
      /\ apiArgs.op = "downloadFile"
      /\ isGoogleAppsFile(apiArgs.mimeType)
      /\ apiArgs.mimeType \notin DOMAIN exportMap ) =>
        /\ apiPc = "done"
        /\ outcome # None /\ outcome[1].status = "rejected"
        /\ issued = <<>>
        /\ browser.blobs = 0
        /\ browser.urlsCreated = 0

\* C9 happens: a download of a native folder has been called and has failed.
C9_Witness ==
    /\ apiPc = "done"
    /\ apiArgs.op = "downloadFile"
    /\ apiArgs.mimeType = <<NativePrefix, ".folder">>
    /\ outcome # None /\ outcome[1].status = "rejected"

\* C10: the step that ends an upload either (success) clears the selection
\* and refreshes the list, or (failure) reports the upload error and leaves
\* the selection as it was; no other step of the upload action clears the
\* selection.
C10_SelectionClearedOnlyOnSuccess ==
    [][ /\ (\E c \in Pending("upload") : CopiesIn(c, calls') < CopiesIn(c, calls)) =>
             \/ /\ CopiesIn(ListCall, calls') = CopiesIn(ListCall, calls) + 1
                /\ selectedFile' = Null
                /\ viewError' = Null
             \/ /\ CopiesIn(ListCall, calls') = CopiesIn(ListCall, calls)
                /\ viewError' = ErrUpload
                /\ selectedFile' = selectedFile
        /\ (selectedFile # Null /\ selectedFile' = Null /\ calls' # calls) =>
             /\ \E c \in Pending("upload") : CopiesIn(c, calls') < CopiesIn(c, calls)
             /\ CopiesIn(ListCall, calls') = CopiesIn(ListCall, calls) + 1
      ]_vars

\* C10 happens: an upload has failed, the error is shown and the file is
\* still selected.
C10_Witness ==
    /\ viewError = ErrUpload
    /\ selectedFile # Null
    /\ Pending("upload") = {}


\* C11: a step in which a list, create, upload or delete call fails leaves
\* the files list and the selected file as they were and starts no list
\* refresh; it sets the error message of the failed operation, and a failed
\* list call sets the loading flag to false (the others leave it).
C11_FailureKeepsViewState ==
    [][ (ListFilesRejected \/ CreateFileRejected \/ UploadFileRejected
            \/ DeleteFileRejected) =>
          /\ files' = files
          /\ selectedFile' = selectedFile
          /\ CopiesIn(ListCall, calls') <= CopiesIn(ListCall, calls)
          /\ BagCardinality(calls') = BagCardinality(calls) - 1
          /\ viewError' \in {ErrFetch, ErrCreate, ErrUpload, ErrDelete}
          /\ IF CopiesIn(ListCall, calls') < CopiesIn(ListCall, calls)
             THEN ~loading' /\ viewError' = ErrFetch
             ELSE loading' = loading
      ]_vars

\* C11 happens: with a file listed and a file selected, a create call has
\* failed.
C11_Witness ==
    /\ viewError = ErrCreate
    /\ files # <<>>
    /\ selectedFile # Null
    /\ calls = EmptyBag


\* C12: each resolution of a list call replaces the files list wholesale by
\* that call's result (its files with an id), whatever the list was and
\* whether or not another list call is still in flight; a rejected list call
\* leaves the list: so once overlapping calls have completed, the list is
\* the result of the one that resolved last.
C12_LastResolvedListWins ==
    [][ /\ ListFilesResolved =>
             /\ \E apiFiles \in FileLists :
                   /\ Len(files') <= Len(apiFiles)
                   /\ \A i \in 1..Len(files') : files'[i].id # ""
                   /\ files' = SelectSeq(apiFiles, LAMBDA file : file.id # "")
             /\ CopiesIn(ListCall, calls') = CopiesIn(ListCall, calls) - 1
        /\ (ListFilesRejected /\ ~ListFilesResolved) => files' = files
      ]_vars

\* C12 happens: two list calls overlapped; one has resolved with files and
\* the other is still in flight.
C12_Witness ==
    /\ CopiesIn(ListCall, calls) = 1
    /\ BagCardinality(calls) = 1
    /\ ~loading
    /\ files # <<>>
    /\ isSignedIn


\* C13: the wait for the vendor libraries makes at most 50 checks; a check
\* that finds both libraries succeeds (the 50th included); the 50th check
\* without them enters Error with the libraries message, which then never
\* becomes Ready; and the wait always ends.
C13_LibraryWaitIsBounded ==
    /\ [](attempts <= maxAttempts)
    /\ [][ (pc = "wait" /\ attempts' = attempts + 1) =>
             IF gapiLib /\ googleLib # "undefined"
             THEN pc' = "gapiLoad" /\ error' = Null
             ELSE IF attempts' = maxAttempts
             THEN pc' = "failed" /\ error' = ErrLibraries /\ ~isInitialized'
             ELSE pc' = "wait" /\ error' = Null
         ]_vars
    /\ [][ error = ErrLibraries => (error' = ErrLibraries /\ ~isInitialized') ]_vars
    /\ <>(pc # "wait")

\* C13 happens: the libraries were found at the 50th check.
C13_Witness ==
    /\ pc = "gapiLoad"
    /\ attempts = maxAttempts


C15_ErrorPayloadChangesNothing ==
    [][ \A request \in BagToSet(tokenRequests), response \in TokenResponses :
          (response.error /\ TokenCallback(request, response)) =>
             /\ isSignedIn' = isSignedIn
             /\ gapiToken' = gapiToken
             /\ accessToken' = accessToken
             /\ localStorage' = localStorage
             /\ BagCardinality(tokenRequests') = BagCardinality(tokenRequests) - 1
      ]_vars

\* C15 happens: the silent request of the startup has been answered and the
\* user is not signed in, with no token anywhere.
C15_Witness ==
    /\ pc = "done"
    /\ storedToken = None
    /\ tokenRequests = EmptyBag
    /\ ~isSignedIn
    /\ signOuts = 0
    /\ gapiToken = Null
    /\ accessToken = Null
    /\ localStorage = Absent


\* C16: when the startup has read a stored record whose expiresAt has passed
\* (now >= expiresAt), the local-storage entry is absent afterwards.
C16_ExpiredCredentialIsDeleted ==
    [][ ( /\ pc = "gapiInit" /\ pc' = "done"
          /\ localStorage.kind = "object"
          /\ localStorage.hasExpiresAt
          /\ now >= localStorage.expiresAt ) =>
            localStorage' = Absent
      ]_vars


\* C17: signedIn implies that a token is installed in the execution
\* context: every step that sets signedIn installs a token, and every step
\* that removes the installed token sets signedIn to false.
C17_SignedInHasToken ==
    /\ [](isSignedIn => gapiToken \in Tokens)
    /\ [][ (~isSignedIn /\ isSignedIn') => gapiToken' \in Tokens ]_vars
    /\ [][ (gapiToken # Null /\ gapiToken' = Null) =>
             (~isSignedIn' /\ signOuts' = signOuts + 1) ]_vars

\* C17 happens: after a sign-out, a token callback has signed the user in
\* again, with its token installed.
C17_Witness ==
    /\ signOuts > 0
    /\ isSignedIn
    /\ gapiToken \in Tokens
    /\ localStorage # Absent


\* C18: once the view has reacted to signedIn = false by clearing the files
\* list, the list stays empty while signedIn stays false, also when a list
\* call that was in flight at the sign-out resolves.
C18_ListStaysEmptyWhileSignedOut ==
    [][ ( /\ ~isSignedIn /\ ~isSignedIn'
          /\ effectSeen = Some(FALSE)
          /\ files = <<>> ) =>
            files' = <<>>
      ]_vars

\* C19: the loading flag is true whenever a list call is in flight, also
\* when several list calls overlap.
C19_LoadingWhileListInFlight ==
    CopiesIn(ListCall, calls) > 0 => loading


\* C20: a token response with access token t and expires_in e stored at the
\* instant s is read back as t at every instant before s + 1000 * e and as
\* absent from then on (so immediately when e is missing or 0); a response
\* without access token leaves the stored entry as it is.
C20_StoreThenRead ==
    \A response \in TokenResponses :
        LET stored == storeToken(response, localStorage, now)
        IN IF response.access_token = Null
           THEN stored = localStorage
           ELSE \A t \in {x \in Times : x >= now} :
                   LET read == readStoredToken(stored, t)
                   IN IF t < now + 1000 * response.expires_in
                      THEN /\ read # None
                           /\ read[1].accessToken = response.access_token
                      ELSE read = None

\* C20 happens: a token was stored with expires_in of one second and read
\* back as absent at the instant of its expiry.
C20_Witness ==
    /\ tsOp = "read"
    /\ localStorage.kind = "object"
    /\ localStorage.expiresAt = MsPerSecond
    /\ now = localStorage.expiresAt
    /\ storedToken = None

=============================================================================
